---------------------------- MODULE Spec2Model ----------------------------
(***************************************************************************)
(* Model of quiz.py, a Streamlit pub-quiz scorekeeper.                     *)
(*                                                                         *)
(* Streamlit re-executes the whole script top to bottom on every user      *)
(* interaction ("rerun").  One action of this model is one user            *)
(* interaction followed by the complete rerun it triggers.                 *)
(*                                                                         *)
(* Python dicts are insertion-ordered; a dict is modelled as a sequence    *)
(* of <<key, value>> pairs in insertion order.                             *)
(*                                                                         *)
(* Library behaviour assumed of Streamlit: a widget created with key=...   *)
(* keeps its value in the session while it is rendered, its value=         *)
(* argument being only the value it takes when first rendered; the state   *)
(* of a widget that a completed run did not render is dropped; a run       *)
(* that ends in an uncaught exception drops nothing; st.button is True     *)
(* only in the rerun its click triggers; the file uploader holds its       *)
(* files until the user removes them.                                      *)
(***************************************************************************)
EXTENDS Integers, Sequences, FiniteSets, TLC

VARIABLES
    quiz_data,       \* st.session_state.quiz_data
    data_file,       \* DATA_FILE on disk: [exists, bytes]
    music_folder,    \* MUSIC_FOLDER on disk: filename -> content
    widgets,         \* keyed widget values held by the session
    uploaded_music,  \* files held by the "music_upload" file uploader
    event,           \* the interaction that triggered the last rerun
    view             \* what the last rerun computed and rendered

vars == <<quiz_data, data_file, music_folder, widgets, uploaded_music, event, view>>

-----------------------------------------------------------------------------
(* Bounds of the model *)

MaxTeams == 2
MaxScore == 1
MaxHeld == 1
MaxUpload == 2

(* Program constants *)

DefaultNumTeams == 1
DefaultNumRounds == 5
MinTeams == 1
MinRounds == 1
MinScore == 0
DefaultScore == 0

-----------------------------------------------------------------------------
(* Python dict as an insertion-ordered sequence of <<key, value>> pairs *)

EmptyDict == <<>>

Keys(d) == [i \in 1..Len(d) |-> d[i][1]]

Values(d) == [i \in 1..Len(d) |-> d[i][2]]

KeySet(d) == {d[i][1] : i \in 1..Len(d)}

Has(d, k) == \E i \in 1..Len(d) : d[i][1] = k

Lookup(d, k) == d[CHOOSE i \in 1..Len(d) : d[i][1] = k][2]

Get(d, k, default) == IF Has(d, k) THEN Lookup(d, k) ELSE default

\* d[k] = v: an existing key keeps its position, a new key goes last
Put(d, k, v) ==
    IF Has(d, k)
    THEN [i \in 1..Len(d) |-> IF d[i][1] = k THEN <<k, v>> ELSE d[i]]
    ELSE Append(d, <<k, v>>)

-----------------------------------------------------------------------------
(* The QuizState literal of load_quiz_data and of the reset handler *)

TeamLabel(i) == "Team " \o ToString(i)

DefaultQuizData ==
    [team_names  |-> EmptyDict,
     team_scores |-> EmptyDict,
     num_teams   |-> DefaultNumTeams,
     num_rounds  |-> DefaultNumRounds]

-----------------------------------------------------------------------------
(* pickle: the byte stream is modelled as a sequence of opcodes            *)
(* <<opcode, argument>> (memoisation and framing opcodes left out);        *)
(* pickle.load runs the opcodes on a stack, as the unpickler does.         *)

RECURSIVE Concat(_)
Concat(ss) == IF ss = <<>> THEN <<>> ELSE Head(ss) \o Concat(Tail(ss))

DumpInt(n) == << <<"BININT", n>> >>

DumpStr(str) == << <<"BINUNICODE", str>> >>

\* items: the pickled keys and values, alternating, in insertion order
DumpDict(items) ==
    CASE Len(items) = 0 -> << <<"EMPTY_DICT", 0>> >>
      [] Len(items) = 2 -> << <<"EMPTY_DICT", 0>> >> \o Concat(items) \o << <<"SETITEM", 0>> >>
      [] OTHER -> << <<"EMPTY_DICT", 0>>, <<"MARK", 0>> >> \o Concat(items) \o << <<"SETITEMS", 0>> >>

DumpRoundScores(d) ==
    DumpDict([j \in 1..(2 * Len(d)) |->
        IF j % 2 = 1 THEN DumpInt(d[(j + 1) \div 2][1]) ELSE DumpInt(d[j \div 2][2])])

DumpTeamNames(d) ==
    DumpDict([j \in 1..(2 * Len(d)) |->
        IF j % 2 = 1 THEN DumpInt(d[(j + 1) \div 2][1]) ELSE DumpStr(d[j \div 2][2])])

DumpTeamScores(d) ==
    DumpDict([j \in 1..(2 * Len(d)) |->
        IF j % 2 = 1 THEN DumpInt(d[(j + 1) \div 2][1]) ELSE DumpRoundScores(d[j \div 2][2])])

PickleDump(q) ==
    << <<"PROTO", 0>> >>
    \o DumpDict(<< DumpStr("team_names"),  DumpTeamNames(q.team_names),
                   DumpStr("team_scores"), DumpTeamScores(q.team_scores),
                   DumpStr("num_teams"),   DumpInt(q.num_teams),
                   DumpStr("num_rounds"),  DumpInt(q.num_rounds) >>)
    \o << <<"STOP", 0>> >>

\* dict.update with the key/value objects above the topmost mark
RECURSIVE SetItems(_, _)
SetItems(d, objs) ==
    IF Len(objs) < 2 THEN d
    ELSE SetItems(Put(d, objs[1][2], objs[2][2]), SubSeq(objs, 3, Len(objs)))

TopMark(stack) == CHOOSE m \in 1..Len(stack) :
    /\ stack[m][1] = "mark"
    /\ \A k \in (m + 1)..Len(stack) : stack[k][1] # "mark"

RECURSIVE Unpickle(_, _)
Unpickle(bytes, stack) ==
    LET op   == Head(bytes)[1]
        arg  == Head(bytes)[2]
        rest == Tail(bytes)
        n    == Len(stack)
    IN  CASE op = "PROTO"      -> Unpickle(rest, stack)
          [] op = "BININT"     -> Unpickle(rest, Append(stack, <<"obj", arg>>))
          [] op = "BINUNICODE" -> Unpickle(rest, Append(stack, <<"obj", arg>>))
          [] op = "EMPTY_DICT" -> Unpickle(rest, Append(stack, <<"obj", EmptyDict>>))
          [] op = "MARK"       -> Unpickle(rest, Append(stack, <<"mark", 0>>))
          [] op = "SETITEM"    ->
                Unpickle(rest, Append(SubSeq(stack, 1, n - 3),
                    <<"obj", Put(stack[n - 2][2], stack[n - 1][2], stack[n][2])>>))
          [] op = "SETITEMS"   ->
                LET m == TopMark(stack)
                IN  Unpickle(rest, Append(SubSeq(stack, 1, m - 2),
                        <<"obj", SetItems(stack[m - 1][2], SubSeq(stack, m + 1, n))>>))
          [] op = "STOP"       -> stack[n][2]

PickleLoad(bytes) ==
    LET d == Unpickle(bytes, <<>>)
    IN  [team_names  |-> Lookup(d, "team_names"),
         team_scores |-> Lookup(d, "team_scores"),
         num_teams   |-> Lookup(d, "num_teams"),
         num_rounds  |-> Lookup(d, "num_rounds")]

NoFile == [exists |-> FALSE, bytes |-> <<>>]

load_quiz_data(file) ==
    IF file.exists THEN PickleLoad(file.bytes) ELSE DefaultQuizData

\* mutant: the file opened "ab", the new pickle written after the old bytes
save_quiz_data_append(file, q) ==
    [exists |-> TRUE, bytes |-> file.bytes \o PickleDump(q)]

\* open(DATA_FILE, "wb") truncates whatever the file held
save_quiz_data(file, q) == [exists |-> TRUE, bytes |-> PickleDump(q)]

-----------------------------------------------------------------------------
(* sorted(xs, key=..., reverse=...): a stable sort of <<key, item>> pairs;  *)
(* with reverse=True equal keys still keep their original order.           *)

InsertSorted(sorted, x, reverse) ==
    LET before == {i \in 1..Len(sorted) :
                      IF reverse THEN sorted[i][1] >= x[1] ELSE sorted[i][1] <= x[1]}
        p == Cardinality(before)
    IN  SubSeq(sorted, 1, p) \o <<x>> \o SubSeq(sorted, p + 1, Len(sorted))

RECURSIVE SortPairs(_, _, _)
SortPairs(done, todo, reverse) ==
    IF todo = <<>> THEN done
    ELSE SortPairs(InsertSorted(done, Head(todo), reverse), Tail(todo), reverse)

Sorted(pairs, reverse) == SortPairs(<<>>, pairs, reverse)

RECURSIVE Sum(_)
Sum(xs) == IF xs = <<>> THEN 0 ELSE Head(xs) + Sum(Tail(xs))

-----------------------------------------------------------------------------
(* Music Round tab.  A filename is a sequence of characters. *)

Track2   == <<"t","r","a","c","k","2",".","m","p","3">>
Track10  == <<"t","r","a","c","k","1","0",".","m","p","3">>
IntroMp3 == <<"i","n","t","r","o",".","m","p","3">>
IntroWav == <<"i","n","t","r","o",".","w","a","v">>

DigitChars == <<"0","1","2","3","4","5","6","7","8","9">>

IsDigit(c) == \E i \in 1..Len(DigitChars) : DigitChars[i] = c

DigitValue(c) == (CHOOSE i \in 1..Len(DigitChars) : DigitChars[i] = c) - 1

\* re.search(r'(\d+)', name): None when the name holds no digit
HasMatch(name) == \E i \in 1..Len(name) : IsDigit(name[i])

\* .group(1): the leftmost, longest run of digits
Group1(name) ==
    LET first == CHOOSE i \in 1..Len(name) :
                    IsDigit(name[i]) /\ \A j \in 1..(i - 1) : ~IsDigit(name[j])
        last  == CHOOSE i \in first..Len(name) :
                    /\ \A j \in first..i : IsDigit(name[j])
                    /\ (i = Len(name) \/ ~IsDigit(name[i + 1]))
    IN  SubSeq(name, first, last)

\* int() of a string of decimal digits
RECURSIVE IntOfDigits(_, _)
IntOfDigits(acc, digits) ==
    IF digits = <<>> THEN acc
    ELSE IntOfDigits(10 * acc + DigitValue(Head(digits)), Tail(digits))

\* the sort key: int(<group 1> if <match> else float('inf')); the int()
\* wraps the whole conditional, and int(float('inf')) raises OverflowError
KeyRaises(name) == ~HasMatch(name)

SortKey(name) == IntOfDigits(0, Group1(name))

NoFiles == [n \in {} |-> 0]

\* mutant: a file that is already in the folder is not written again
RECURSIVE SaveUploadedKeepExisting(_, _)
SaveUploadedKeepExisting(folder, files) ==
    IF files = <<>> THEN folder
    ELSE LET f == Head(files)
         IN  SaveUploadedKeepExisting(
                 IF f.name \in DOMAIN folder THEN folder
                 ELSE [n \in (DOMAIN folder) \cup {f.name} |->
                          IF n = f.name THEN f.content ELSE folder[n]],
                 Tail(files))

\* lines 69-72: each uploaded file is written under its own name
RECURSIVE SaveUploaded(_, _)
SaveUploaded(folder, files) ==
    IF files = <<>> THEN folder
    ELSE LET f == Head(files)
         IN  SaveUploaded([n \in (DOMAIN folder) \cup {f.name} |->
                              IF n = f.name THEN f.content ELSE folder[n]],
                          Tail(files))

\* the orders in which glob.glob may enumerate a folder
GlobOrders(folder) ==
    LET names == DOMAIN folder
    IN  {o \in [1..Cardinality(names) -> names] :
            \A i, j \in 1..Cardinality(names) : o[i] = o[j] => i = j}

-----------------------------------------------------------------------------
(* Keyed widgets: the session's value if the widget is in the session,     *)
(* else the value= argument, which the session then holds.                 *)

WidgetValue(held, key, value) == IF key \in DOMAIN held THEN held[key] ELSE value

Hold(held, key, v) == [k \in (DOMAIN held) \cup {key} |-> IF k = key THEN v ELSE held[k]]

Restrict(f, S) == [k \in (DOMAIN f) \cap S |-> f[k]]

NoWidgets == [numbers |-> <<>>, names |-> <<>>, scores |-> <<>>]

NoView ==
    [reset |-> FALSE, error |-> "", reset_state |-> <<>>,
     music_files |-> <<>>, music_files_sorted |-> <<>>, total_scores |-> <<>>, sorted_scores |-> <<>>,
     lines |-> <<>>, winner |-> <<>>]

-----------------------------------------------------------------------------
(* The script, section by section.  s is the whole state of a run:         *)
(* [quiz_data, data_file, music_folder, widgets, uploaded_music, view].    *)

\* lines 39-40
SessionInit(file) == load_quiz_data(file)

\* mutant: the handler's literal lacks a fresh team_scores
ResetHandlerKeepScores(s) ==
    [s EXCEPT !.quiz_data = [DefaultQuizData EXCEPT !.team_scores = s.quiz_data.team_scores],
              !.music_folder = Restrict(s.music_folder, {}),
              !.view.reset = TRUE,
              !.view.reset_state = DefaultQuizData]

\* lines 43-53: the Reset Quiz button handler
ResetHandler(s) ==
    [s EXCEPT !.quiz_data = DefaultQuizData,
              !.music_folder = Restrict(s.music_folder, {}),
              !.view.reset = TRUE,
              !.view.reset_state = DefaultQuizData]

\* lines 66-73
MusicUpload(s) ==
    IF s.uploaded_music # <<>>
    THEN [s EXCEPT !.music_folder = SaveUploaded(s.music_folder, s.uploaded_music)]
    ELSE s

\* lines 76-85; music_files is the list glob returned
MusicList(s, music_files) ==
    IF \E i \in 1..Len(music_files) : KeyRaises(music_files[i])
    THEN [s EXCEPT !.view.music_files = music_files,
                   !.view.error = "OverflowError"]
    ELSE [s EXCEPT !.view.music_files = music_files,
                   !.view.music_files_sorted =
            Values(Sorted([i \in 1..Len(music_files) |->
                              <<SortKey(music_files[i]), music_files[i]>>], FALSE))]

\* lines 94-96
RECURSIVE CollectTeamNames(_, _, _)
CollectTeamNames(s, i, num_teams) ==
    IF i > num_teams THEN s
    ELSE LET team_name == WidgetValue(s.widgets.names, i,
                              Get(s.quiz_data.team_names, i, TeamLabel(i)))
         IN  CollectTeamNames(
                 [s EXCEPT !.widgets.names = Hold(@, i, team_name),
                           !.quiz_data.team_names = Put(@, i, team_name)],
                 i + 1, num_teams)

\* mutant: team_names is cut down to the teams 1..num_teams
TeamSetupTabPruned(s) ==
    LET num_teams == WidgetValue(s.widgets.numbers, "num_teams", s.quiz_data.num_teams)
        s1 == [s EXCEPT !.widgets.numbers = Hold(@, "num_teams", num_teams),
                        !.quiz_data.num_teams = num_teams,
                        !.quiz_data.team_names = SelectSeq(@, LAMBDA e : e[1] <= num_teams),
                        !.quiz_data.team_scores = SelectSeq(@, LAMBDA e : e[1] <= num_teams)]
        s2 == CollectTeamNames(s1, 1, num_teams)
    IN  [s2 EXCEPT !.data_file = save_quiz_data(@, s2.quiz_data)]

\* lines 88-98
TeamSetupTab(s) ==
    LET num_teams == WidgetValue(s.widgets.numbers, "num_teams", s.quiz_data.num_teams)
        s1 == [s EXCEPT !.widgets.numbers = Hold(@, "num_teams", num_teams),
                        !.quiz_data.num_teams = num_teams]
        s2 == CollectTeamNames(s1, 1, num_teams)
    IN  [s2 EXCEPT !.data_file = save_quiz_data(@, s2.quiz_data)]

\* lines 107-109
RECURSIVE InitTeamScores(_, _)
InitTeamScores(team_scores, team_ids) ==
    IF team_ids = <<>> THEN team_scores
    ELSE InitTeamScores(
             IF Has(team_scores, Head(team_ids)) THEN team_scores
             ELSE Put(team_scores, Head(team_ids), EmptyDict),
             Tail(team_ids))

\* lines 111-116: cells are the <<round_num, team_id>> pairs in loop order
RECURSIVE EnterScores(_, _)
EnterScores(s, cells) ==
    IF cells = <<>> THEN s
    ELSE LET round_num == Head(cells)[1]
             team_id   == Head(cells)[2]
             score == WidgetValue(s.widgets.scores, <<team_id, round_num>>,
                          Get(Get(s.quiz_data.team_scores, team_id, EmptyDict),
                              round_num, DefaultScore))
         IN  EnterScores(
                 [s EXCEPT !.widgets.scores = Hold(@, <<team_id, round_num>>, score),
                           !.quiz_data.team_scores =
                               Put(@, team_id, Put(Lookup(@, team_id), round_num, score))],
                 Tail(cells))

ScoreCells(team_ids, num_rounds) ==
    [c \in 1..(num_rounds * Len(team_ids)) |->
        <<((c - 1) \div Len(team_ids)) + 1, team_ids[((c - 1) % Len(team_ids)) + 1]>>]

\* mutant: the save_quiz_data() of line 118 is missing
TeamScoresTabNoSave(s) ==
    LET num_rounds == WidgetValue(s.widgets.numbers, "num_rounds", s.quiz_data.num_rounds)
        team_ids == Keys(s.quiz_data.team_names)
        s1 == [s EXCEPT !.widgets.numbers = Hold(@, "num_rounds", num_rounds),
                        !.quiz_data.num_rounds = num_rounds,
                        !.quiz_data.team_scores = InitTeamScores(@, team_ids)]
    IN  EnterScores(s1, ScoreCells(team_ids, num_rounds))

\* lines 101-118
TeamScoresTab(s) ==
    LET num_rounds == WidgetValue(s.widgets.numbers, "num_rounds", s.quiz_data.num_rounds)
        team_ids == Keys(s.quiz_data.team_names)
        s1 == [s EXCEPT !.widgets.numbers = Hold(@, "num_rounds", num_rounds),
                        !.quiz_data.num_rounds = num_rounds,
                        !.quiz_data.team_scores = InitTeamScores(@, team_ids)]
        s2 == EnterScores(s1, ScoreCells(team_ids, num_rounds))
    IN  [s2 EXCEPT !.data_file = save_quiz_data(@, s2.quiz_data)]

\* mutant: the last round of each team is left out of its total
TotalScoresSkipLast(team_scores) ==
    [i \in 1..Len(team_scores) |->
        <<team_scores[i][1],
          Sum(SubSeq(Values(team_scores[i][2]), 1, Len(team_scores[i][2]) - 1))>>]

\* lines 125-127
TotalScores(team_scores) ==
    [i \in 1..Len(team_scores) |-> <<team_scores[i][1], Sum(Values(team_scores[i][2]))>>]

\* mutant: sorted ascending, then the list reversed
SortedScoresReversed(total_scores) ==
    LET up == Values(Sorted([i \in 1..Len(total_scores) |->
                                <<total_scores[i][2], total_scores[i]>>], FALSE))
    IN  [i \in 1..Len(up) |-> up[Len(up) + 1 - i]]

\* line 130: sorted(total_scores.items(), key=lambda x: x[1], reverse=True)
SortedScores(total_scores) ==
    Values(Sorted([i \in 1..Len(total_scores) |-> <<total_scores[i][2], total_scores[i]>>],
                  TRUE))

\* lines 121-137; team_names[team_id] raises KeyError for a missing team
SummaryTab(s) ==
    LET total_scores  == TotalScores(s.quiz_data.team_scores)
        sorted_scores == SortedScores(total_scores)
        team_names    == s.quiz_data.team_names
        s1 == [s EXCEPT !.view.total_scores = total_scores,
                        !.view.sorted_scores = sorted_scores]
    IN  IF \E i \in 1..Len(sorted_scores) : ~Has(team_names, sorted_scores[i][1])
        THEN [s1 EXCEPT !.view.error = "KeyError"]
        ELSE [s1 EXCEPT
                !.view.lines = [i \in 1..Len(sorted_scores) |->
                    <<Lookup(team_names, sorted_scores[i][1]), sorted_scores[i][2]>>],
                !.view.winner =
                    IF sorted_scores # <<>>
                    THEN <<Lookup(team_names, sorted_scores[1][1])>>
                    ELSE <<>>]

\* a run that completed drops the state of the widgets it did not render
EndOfRun(s) ==
    [s EXCEPT
        !.widgets.names  = Restrict(@, 1..s.quiz_data.num_teams),
        !.widgets.scores = Restrict(@, KeySet(s.quiz_data.team_names)
                                         \X (1..s.quiz_data.num_rounds))]

\* the folder glob enumerates at line 76
FolderListed(s, reset) ==
    MusicUpload(IF reset THEN ResetHandler(s) ELSE s).music_folder

\* one execution of the script, lines 39-137; an uncaught exception ends it
Script(s, reset, music_files) ==
    LET s0 == [s EXCEPT !.view = NoView]
        s1 == IF reset THEN ResetHandler(s0) ELSE s0
        s2 == MusicList(MusicUpload(s1), music_files)
        s3 == SummaryTab(TeamScoresTab(TeamSetupTab(s2)))
    IN  IF s2.view.error # "" THEN s2
        ELSE IF s3.view.error # "" THEN s3
        ELSE EndOfRun(s3)

-----------------------------------------------------------------------------
(* What the user may enter *)

NameChoices == {"A"}

ScoreChoices == MinScore..MaxScore

\* the round count moves between the default and one round more;
\* scores are entered in the round past the default
RoundChoices == {DefaultNumRounds, DefaultNumRounds + 1}

ScoredRounds == {DefaultNumRounds + 1}

Blob(name, content) == [name |-> name, content |-> content]

QuizBlobs == {Blob(IntroWav, 1)}

MusicBlobs ==
    {Blob(Track2, 1), Blob(Track2, 2), Blob(Track10, 1), Blob(IntroMp3, 1)}

-----------------------------------------------------------------------------
(* Actions: one user interaction and the rerun it triggers *)

Cur ==
    [quiz_data |-> quiz_data, data_file |-> data_file, music_folder |-> music_folder,
     widgets |-> widgets, uploaded_music |-> uploaded_music, view |-> view]

Ev(kind, arg) == [kind |-> kind, arg |-> arg]

Rerun(s, reset, ev) ==
    \E music_files \in GlobOrders(FolderListed(s, reset)) :
        \E r \in {Script(s, reset, music_files)} :
            /\ quiz_data' = r.quiz_data
            /\ data_file' = r.data_file
            /\ music_folder' = r.music_folder
            /\ widgets' = r.widgets
            /\ uploaded_music' = r.uploaded_music
            /\ view' = r.view
            /\ event' = ev

FreshSession(file, folder) ==
    [quiz_data |-> SessionInit(file), data_file |-> file, music_folder |-> folder,
     widgets |-> NoWidgets, uploaded_music |-> <<>>, view |-> NoView]

\* the first session, on a disk holding neither DATA_FILE nor any music
Init ==
    LET r == Script(FreshSession(NoFile, NoFiles), FALSE, <<>>)
    IN  /\ quiz_data = r.quiz_data
        /\ data_file = r.data_file
        /\ music_folder = r.music_folder
        /\ widgets = r.widgets
        /\ uploaded_music = r.uploaded_music
        /\ view = r.view
        /\ event = Ev("session", <<>>)

\* the page is opened anew: an empty session state
NewSession ==
    Rerun(FreshSession(data_file, music_folder), FALSE, Ev("session", <<>>))

PressReset ==
    Rerun(Cur, TRUE, Ev("reset", <<>>))

AddFile(f, limit) ==
    /\ Len(uploaded_music) < limit
    /\ Rerun([Cur EXCEPT !.uploaded_music = Append(@, f)], FALSE, Ev("upload", <<>>))

RemoveFile(i) ==
    /\ i \in 1..Len(uploaded_music)
    /\ Rerun([Cur EXCEPT !.uploaded_music =
                 SubSeq(@, 1, i - 1) \o SubSeq(@, i + 1, Len(@))],
             FALSE, Ev("upload", <<>>))

\* the tabs below the Music Round tab are on the page only if the last run got there
SetNumTeams(k) ==
    /\ view.error = ""
    /\ k >= MinTeams
    /\ k # widgets.numbers["num_teams"]
    /\ Rerun([Cur EXCEPT !.widgets.numbers["num_teams"] = k], FALSE,
             Ev("num_teams", <<widgets.numbers["num_teams"]>>))

EditTeamName(i, name) ==
    /\ view.error = ""
    /\ i \in DOMAIN widgets.names
    /\ name # widgets.names[i]
    /\ Rerun([Cur EXCEPT !.widgets.names[i] = name], FALSE, Ev("team_name", <<>>))

SetNumRounds(k) ==
    /\ view.error = ""
    /\ k >= MinRounds
    /\ k # widgets.numbers["num_rounds"]
    /\ Rerun([Cur EXCEPT !.widgets.numbers["num_rounds"] = k], FALSE,
             Ev("num_rounds", <<>>))

EditScore(team_id, round_num, score) ==
    /\ view.error = ""
    /\ <<team_id, round_num>> \in DOMAIN widgets.scores
    /\ score >= MinScore
    /\ score # widgets.scores[<<team_id, round_num>>]
    /\ Rerun([Cur EXCEPT !.widgets.scores[<<team_id, round_num>>] = score], FALSE,
             Ev("score", <<>>))

Next ==
    \/ NewSession
    \/ PressReset
    \/ \E f \in QuizBlobs : AddFile(f, MaxHeld)
    \/ \E i \in 1..MaxHeld : RemoveFile(i)
    \/ \E k \in 1..MaxTeams : SetNumTeams(k)
    \/ \E i \in 1..MaxTeams, name \in NameChoices : EditTeamName(i, name)
    \/ \E k \in RoundChoices : SetNumRounds(k)
    \/ \E t \in 1..MaxTeams, r \in ScoredRounds, v \in ScoreChoices : EditScore(t, r, v)

Spec == Init /\ [][Next]_vars

\* the music round alone: uploads, removals, resets and new sessions
NextMusic ==
    \/ NewSession
    \/ PressReset
    \/ \E f \in MusicBlobs : AddFile(f, MaxUpload)
    \/ \E i \in 1..MaxUpload : RemoveFile(i)

SpecMusic == Init /\ [][NextMusic]_vars

-----------------------------------------------------------------------------
(* Persistence alone: load_quiz_data and save_quiz_data applied to the     *)
(* QuizStates the tabs build, over the blobs DATA_FILE may hold beforehand *)

RoundScores(rounds, last) ==
    [r \in 1..rounds |-> <<r, IF r = rounds THEN last ELSE DefaultScore>>]

\* names[i], lasts[i]: the name of team i and its score of the last round
QuizStateOf(names, lasts, teams, rounds) ==
    [team_names  |-> [i \in 1..Len(names) |-> <<i, names[i]>>],
     team_scores |-> [i \in 1..Len(lasts) |-> <<i, RoundScores(rounds, lasts[i])>>],
     num_teams   |-> teams,
     num_rounds  |-> rounds]

QuizStates ==
    {DefaultQuizData} \cup UNION {
        {QuizStateOf(names, lasts, teams, rounds) :
            names \in [1..m -> NameChoices \cup {TeamLabel(1)}],
            lasts \in [1..m -> ScoreChoices],
            teams \in 1..m,
            rounds \in RoundChoices} : m \in 1..MaxTeams}

PriorFiles ==
    {NoFile,
     save_quiz_data(NoFile, DefaultQuizData),
     save_quiz_data(NoFile, QuizStateOf(<<"A">>, <<MaxScore>>, 1, DefaultNumRounds))}

InitPersist ==
    /\ quiz_data \in QuizStates
    /\ data_file \in PriorFiles
    /\ music_folder = NoFiles
    /\ widgets = NoWidgets
    /\ uploaded_music = <<>>
    /\ view = NoView
    /\ event = Ev("held", <<>>)

\* the event keeps the blob the save replaced
Save ==
    /\ data_file' = save_quiz_data(data_file, quiz_data)
    /\ event' = Ev("save", <<data_file>>)
    /\ UNCHANGED <<quiz_data, music_folder, widgets, uploaded_music, view>>

Load ==
    /\ quiz_data' = load_quiz_data(data_file)
    /\ event' = Ev("load", IF event.kind = "save" THEN event.arg ELSE <<>>)
    /\ UNCHANGED <<data_file, music_folder, widgets, uploaded_music, view>>

NextPersist ==
    \/ Save
    \/ Load

SpecPersist == InitPersist /\ [][NextPersist]_vars

-----------------------------------------------------------------------------
(* Definitions the properties below are stated with *)

TeamIds == KeySet(quiz_data.team_scores)

RECURSIVE SumOver(_, _)
SumOver(d, ks) ==
    IF ks = {} THEN 0
    ELSE LET k == CHOOSE x \in ks : TRUE
         IN  Lookup(d, k) + SumOver(d, ks \ {k})

\* the sum of the round scores stored for a team
EnteredTotal(t) ==
    LET scores == Lookup(quiz_data.team_scores, t)
    IN  SumOver(scores, KeySet(scores))

Completed == view.error = ""

-----------------------------------------------------------------------------
\* C1: after any sequence of reruns, the Summary view's total of every team
\* in team_scores is the sum of that team's entered round scores (the scores
\* the score fields hold, and those entered earlier in rounds no longer
\* shown), and the list it displays has every team once, ordered
\* non-increasingly by total.
C1_SummaryTotals ==
    Completed =>
        /\ Keys(view.total_scores) = Keys(quiz_data.team_scores)
        /\ \A t \in TeamIds : Lookup(view.total_scores, t) = EnteredTotal(t)
        /\ \A c \in DOMAIN widgets.scores :
               Lookup(Lookup(quiz_data.team_scores, c[1]), c[2]) = widgets.scores[c]
        /\ Len(view.lines) = Len(quiz_data.team_scores)
        /\ \A t \in TeamIds : \E i \in 1..Len(view.lines) :
               /\ view.sorted_scores[i] = <<t, EnteredTotal(t)>>
               /\ view.lines[i] = <<Lookup(quiz_data.team_names, t), EnteredTotal(t)>>
        /\ \A i, j \in 1..Len(view.lines) : i < j => view.lines[i][2] >= view.lines[j][2]

\* a team's score in a round no longer shown counts, and the totals differ
C1_Witness ==
    /\ Completed
    /\ \E t \in TeamIds : \E r \in KeySet(Lookup(quiz_data.team_scores, t)) :
           r > quiz_data.num_rounds /\ Lookup(Lookup(quiz_data.team_scores, t), r) >= 1
    /\ Len(view.lines) >= 2
    /\ view.lines[1][2] > view.lines[2][2]

\* C2: whenever team_scores is non-empty, the announced winner has the
\* maximum total and, among the teams sharing it, the smallest TeamId.
C2_Winner ==
    (Completed /\ quiz_data.team_scores # <<>>) =>
        /\ view.winner # <<>>
        /\ \E w \in TeamIds :
               /\ \A u \in TeamIds : EnteredTotal(w) >= EnteredTotal(u)
               /\ \A u \in TeamIds : EnteredTotal(u) = EnteredTotal(w) => w <= u
               /\ view.sorted_scores[1][1] = w
               /\ view.winner = <<Lookup(quiz_data.team_names, w)>>

\* two teams share a maximum total that is not zero, the later one renamed
C2_Witness ==
    /\ Completed
    /\ view.winner # <<>>
    /\ \E w, u \in TeamIds :
           /\ w < u
           /\ EnteredTotal(w) = EnteredTotal(u)
           /\ EnteredTotal(w) >= 1
           /\ \A x \in TeamIds : EnteredTotal(w) >= EnteredTotal(x)
           /\ Lookup(quiz_data.team_names, u) # Lookup(quiz_data.team_names, w)

Position(seq, x) == CHOOSE i \in 1..Len(seq) : seq[i] = x

\* C3: the Music view lists the folder's files by first numeric substring
\* ascending, the names without a digit after all numeric ones in
\* enumeration order; a folder of track2.mp3, track10.mp3 and intro.mp3 is
\* listed in that order; and the rerun completes.
C3_TrackOrder ==
    LET listed == view.music_files_sorted
    IN  /\ Completed
        /\ Len(listed) = Cardinality(DOMAIN music_folder)
        /\ {listed[i] : i \in 1..Len(listed)} = DOMAIN music_folder
        /\ \A i, j \in 1..Len(listed) : i < j =>
               /\ (HasMatch(listed[i]) /\ HasMatch(listed[j]))
                      => SortKey(listed[i]) <= SortKey(listed[j])
               /\ HasMatch(listed[j]) => HasMatch(listed[i])
               /\ (~HasMatch(listed[i]) /\ ~HasMatch(listed[j]))
                      => Position(view.music_files, listed[i])
                             < Position(view.music_files, listed[j])
        /\ DOMAIN music_folder = {Track2, Track10, IntroMp3}
               => listed = <<Track2, Track10, IntroMp3>>

\* C4: a rerun that raises the team count from n to n+1 ends with team n+1
\* named "Team n+1" and scored 0 in every round 1..num_rounds, teams 1..n
\* keeping their names and scores.
C4_AddTeam ==
    [][ (event'.kind = "num_teams" /\ quiz_data'.num_teams = quiz_data.num_teams + 1) =>
            LET n == quiz_data.num_teams
                q == quiz_data'
            IN  /\ Has(q.team_names, n + 1)
                /\ Lookup(q.team_names, n + 1) = TeamLabel(n + 1)
                /\ Has(q.team_scores, n + 1)
                /\ \A r \in 1..q.num_rounds :
                       /\ Has(Lookup(q.team_scores, n + 1), r)
                       /\ Lookup(Lookup(q.team_scores, n + 1), r) = 0
                /\ \A t \in 1..n :
                       /\ Has(quiz_data.team_names, t) /\ Has(q.team_names, t)
                       /\ Lookup(q.team_names, t) = Lookup(quiz_data.team_names, t)
                       /\ Has(quiz_data.team_scores, t) /\ Has(q.team_scores, t)
                       /\ Lookup(q.team_scores, t) = Lookup(quiz_data.team_scores, t)
      ]_vars

\* C5: a rerun that lowers the team count from n to m < n removes nothing:
\* every key of team_names and team_scores is still a key, with the same
\* name and the same scores, and teams m+1..n are still scored and listed.
C5_DecreaseKeepsTeams ==
    [][ (event'.kind = "num_teams" /\ quiz_data'.num_teams < quiz_data.num_teams) =>
            LET q == quiz_data'
            IN  /\ view'.error = ""
                /\ \A t \in KeySet(quiz_data.team_names) :
                       /\ Has(q.team_names, t)
                       /\ Lookup(q.team_names, t) = Lookup(quiz_data.team_names, t)
                /\ \A t \in KeySet(quiz_data.team_scores) :
                       /\ Has(q.team_scores, t)
                       /\ Lookup(q.team_scores, t) = Lookup(quiz_data.team_scores, t)
                /\ \A t \in (q.num_teams + 1)..quiz_data.num_teams :
                       /\ Has(q.team_names, t)
                       /\ \A r \in 1..q.num_rounds : <<t, r>> \in DOMAIN widgets'.scores
                       /\ \E i \in 1..Len(view'.lines) : view'.sorted_scores[i][1] = t
      ]_vars

\* the count was just lowered, and a renamed, scored team above it is listed
C5_Witness ==
    /\ event.kind = "num_teams"
    /\ event.arg[1] > quiz_data.num_teams
    /\ \E t \in TeamIds :
           /\ t > quiz_data.num_teams
           /\ Lookup(quiz_data.team_names, t) = "A"
           /\ EnteredTotal(t) >= 1
           /\ \E i \in 1..Len(view.lines) : view.lines[i] = <<"A", EnteredTotal(t)>>

\* C6: pressing Reset Quiz, files held by the upload control or not, yields
\* the default QuizState from the handler and a track list without a file
\* in that same rerun.
C6_ResetEmpties ==
    view.reset =>
        /\ view.reset_state = DefaultQuizData
        /\ view.music_files = <<>>
        /\ view.music_files_sorted = <<>>

\* C7: save_quiz_data() followed by load_quiz_data() returns the QuizState
\* held in the session, whatever blob DATA_FILE held before the save.
C7_RoundTrip ==
    [][ (event.kind = "save" /\ event'.kind = "load") => quiz_data' = quiz_data ]_vars

\* a state of two teams, one renamed and with a score, has been saved over
\* the blob of another state and loaded back
C7_Witness ==
    /\ event.kind = "load"
    /\ Len(event.arg) = 1
    /\ event.arg[1].exists
    /\ load_quiz_data(event.arg[1]) # quiz_data
    /\ Len(quiz_data.team_names) >= 2
    /\ \E t \in TeamIds : Lookup(quiz_data.team_names, t) = "A" /\ EnteredTotal(t) >= 1

LastNamed(files, name) ==
    files[CHOOSE i \in 1..Len(files) :
            /\ files[i].name = name
            /\ \A j \in (i + 1)..Len(files) : files[j].name # name]

\* C8: an upload leaves the folder mapping each uploaded filename to the
\* content of the last blob of that name in the list, whatever file of
\* that name was there, and every other file present and unchanged.
C8_Upload ==
    [][ ~view'.reset =>
            LET files == uploaded_music'
                names == {files[i].name : i \in 1..Len(files)}
            IN  /\ DOMAIN music_folder' = (DOMAIN music_folder) \cup names
                /\ \A n \in names : music_folder'[n] = LastNamed(files, n).content
                /\ \A n \in (DOMAIN music_folder) \ names : music_folder'[n] = music_folder[n]
      ]_vars

\* two blobs of one name were uploaded, the second replaced the first, and
\* a file uploaded before is still there
C8_Witness ==
    /\ event.kind = "upload"
    /\ Len(uploaded_music) = 2
    /\ uploaded_music[1].name = uploaded_music[2].name
    /\ uploaded_music[1].content # uploaded_music[2].content
    /\ music_folder[uploaded_music[1].name] = uploaded_music[2].content
    /\ \E n \in DOMAIN music_folder : n # uploaded_music[1].name

\* C9: every TeamId of team_scores is a key of team_names when the Summary
\* view runs, so its name lookups never hit a missing team.
C9_NamesCoverScores ==
    /\ KeySet(quiz_data.team_scores) \subseteq KeySet(quiz_data.team_names)
    /\ view.error # "KeyError"

\* after a reset, the Summary view looked up a team above the team count
C9_Witness ==
    /\ Completed
    /\ view.winner # <<>>
    /\ \E t \in TeamIds : t > quiz_data.num_teams
    /\ Len(view.lines) = Len(quiz_data.team_scores)

\* C10: at the end of every completed rerun, one in which Reset Quiz was
\* pressed included, DATA_FILE holds the in-memory quiz_data, which is what
\* a new session loads.
C10_SavedAtEnd ==
    Completed =>
        /\ data_file.exists
        /\ data_file.bytes = PickleDump(quiz_data)
        /\ SessionInit(data_file) = quiz_data

\* a rerun with Reset Quiz pressed completed with a score entered
C10_Witness ==
    /\ event.kind = "reset"
    /\ Completed
    /\ \E t \in TeamIds : EnteredTotal(t) >= 1

=============================================================================
